---- MODULE Spec2Model ----
(***************************************************************************)
(* Right-truncatable prime counter (src/count_primes.c).                   *)
(*                                                                         *)
(* The file holds two programs: the hash-set variant (lines 1-291), whose  *)
(* count_right_trunc_primes regenerates the primes and rebuilds a chained  *)
(* hash set on every call, and the bitset variant (lines 293-440), whose   *)
(* main generates the primes once, builds one dense bit table and scans    *)
(* the digit lengths in descending order.                                  *)
(***************************************************************************)
EXTENDS Integers, Sequences, FiniteSets, TLC

(***************************************************************************)
(* Bounds of the model.                                                    *)
(***************************************************************************)
\* Largest valid digit bound given on the command line.
MaxDigits == 3
\* Table harness: the largest bucket count and the largest value added.
MaxTableSize == 3
MaxTableValue == 4

(***************************************************************************)
(* Program constants.                                                      *)
(***************************************************************************)
\* digits > 19 is rejected (count_primes.c:155, 256, 321, 383).
DigitLimit == 19
\* Bucket count of the hash table when no prime was generated (line 176).
EmptyTableSize == 17
\* Width of unsigned long long, the type hash_ull mixes (line 28).
WordBits == 64
\* Width of one limb of the model's representation of a 64-bit word: 16.
LimbBits == WordBits \div 4

\* unsigned long long power_of_10(int exp): the loop does not run for exp <= 0.
RECURSIVE power_of_10(_)
power_of_10(exp) == IF exp <= 0 THEN 1 ELSE 10 * power_of_10(exp - 1)

\* The largest value the model generates: 10^MaxDigits - 1.
MaxValue == power_of_10(MaxDigits) - 1

(***************************************************************************)
(* 64-bit words as four 16-bit limbs <<l0, l1, l2, l3>>, l0 the least      *)
(* significant.  hash_ull's arithmetic wraps modulo 2^64; the integers of  *)
(* the model checker are narrower, so the word is kept limb by limb.       *)
(***************************************************************************)
LimbBase == 2 ^ LimbBits

\* Limb j (0-based) of word a, 0 outside the word.
Limb(a, j) == IF j >= 0 /\ j < WordBits \div LimbBits THEN a[j + 1] ELSE 0

ToWord(n) == <<n % LimbBase, n \div LimbBase, 0, 0>>

\* ~a
WNot(a) == <<LimbBase - 1 - a[1], LimbBase - 1 - a[2],
             LimbBase - 1 - a[3], LimbBase - 1 - a[4]>>

\* a << n, bits shifted past bit 63 are dropped.
WShl(a, n) ==
    LET q == n \div LimbBits
        r == n % LimbBits
        L(j) == ((Limb(a, j - q) * (2 ^ r)) % LimbBase)
                  + (Limb(a, j - q - 1) \div (2 ^ (LimbBits - r)))
    IN  <<L(0), L(1), L(2), L(3)>>

\* a >> n (logical: the type is unsigned).
WShr(a, n) ==
    LET q == n \div LimbBits
        r == n % LimbBits
        L(j) == (Limb(a, j + q) \div (2 ^ r))
                  + ((Limb(a, j + q + 1) * (2 ^ (LimbBits - r))) % LimbBase)
    IN  <<L(0), L(1), L(2), L(3)>>

\* x ^ y on two limbs, bit by bit.
RECURSIVE LimbXor(_, _, _)
LimbXor(x, y, bits) ==
    IF bits = 0 THEN 0
    ELSE ((x + y) % 2) + 2 * LimbXor(x \div 2, y \div 2, bits - 1)

\* a ^ b
WXor(a, b) == <<LimbXor(a[1], b[1], LimbBits), LimbXor(a[2], b[2], LimbBits),
                LimbXor(a[3], b[3], LimbBits), LimbXor(a[4], b[4], LimbBits)>>

\* a + b modulo 2^64: the carry out of the top limb is dropped.
WAdd(a, b) ==
    LET s0 == a[1] + b[1]
        s1 == a[2] + b[2] + (s0 \div LimbBase)
        s2 == a[3] + b[3] + (s1 \div LimbBase)
        s3 == a[4] + b[4] + (s2 \div LimbBase)
    IN  <<s0 % LimbBase, s1 % LimbBase, s2 % LimbBase, s3 % LimbBase>>

\* a % m for a 64-bit word a and a modulus m < 2^15.
WMod(a, m) ==
    LET r3 == a[4] % m
        r2 == (r3 * LimbBase + a[3]) % m
        r1 == (r2 * LimbBase + a[2]) % m
    IN  (r1 * LimbBase + a[1]) % m

\* The seven assignments to key of hash_ull, in order.
Mix1(key) == WAdd(WNot(key), WShl(key, 21))
Mix2(key) == WXor(key, WShr(key, 24))
Mix3(key) == WAdd(WAdd(key, WShl(key, 3)), WShl(key, 8))
Mix4(key) == WXor(key, WShr(key, 14))
Mix5(key) == WAdd(WAdd(key, WShl(key, 2)), WShl(key, 4))
Mix6(key) == WXor(key, WShr(key, 28))
Mix7(key) == WAdd(key, WShl(key, 31))

\* The avalanche mix of hash_ull, before the reduction modulo the table size.
MixSteps(key) == Mix7(Mix6(Mix5(Mix4(Mix3(Mix2(Mix1(ToWord(key))))))))

\* The mix of every key lo..hi, computed once: MixSteps is a pure function.
RECURSIVE MixRange(_, _)
MixRange(lo, hi) ==
    IF lo > hi THEN <<>>
    ELSE IF lo = hi THEN <<MixSteps(lo)>>
    ELSE LET mid == (lo + hi) \div 2
         IN  MixRange(lo, mid) \o MixRange(mid + 1, hi)

MixMemo == MixRange(0, MaxValue)

hash_mix(key) ==
    IF key >= 0 /\ key <= MaxValue THEN MixMemo[key + 1] ELSE MixSteps(key)

\* size_t hash_ull(unsigned long long key, size_t table_size)
hash_ull(key, table_size) == WMod(hash_mix(key), table_size)

(***************************************************************************)
(* Small utilities of the program.                                         *)
(***************************************************************************)
\* Mutant: the lower bound of the guard is off by one ("digits < 0").
DigitsOutOfRange_AcceptsZero(d) == d < 0 \/ d > DigitLimit

\* The guard "digits < 1 || digits > 19" of count_right_trunc_primes.
DigitsOutOfRange(d) == d < 1 \/ d > DigitLimit

\* The same guard in main, on atoi(argv[1]).
MainRejects(d) == d < 1 \/ d > DigitLimit

\* "current_prime < current_digits_start || current_prime > current_digits_end":
\* the candidate is skipped (hash-set variant, line 207).
OutsideWindow(p, d) == p < power_of_10(d - 1) \/ p > power_of_10(d) - 1

\* Mutant: the exponent of the lower bound is off by one.
BelowWindow_WrongExponent(p, d) == p < power_of_10(d - 2)

\* Bitset variant, line 339: "continue" below the window.
BelowWindow(p, d) == p < power_of_10(d - 1)

\* Bitset variant, line 340: "break" above the window.
AboveWindow(p, d) == p > power_of_10(d) - 1

(***************************************************************************)
(* The Prime Source: primesieve_generate_primes(start, stop, &n, type),    *)
(* an external library.  It returns the primes of [start, stop] in         *)
(* ascending order, or NULL.                                               *)
(***************************************************************************)
Isqrt(n) == CHOOSE r \in 0 .. n : r * r <= n /\ (r + 1) * (r + 1) > n

IsPrime(n) == n >= 2 /\ \A d \in 2 .. Isqrt(n) : n % d # 0

RECURSIVE PrimesIn(_, _)
PrimesIn(lo, hi) ==
    IF lo > hi THEN <<>>
    ELSE IF lo = hi THEN (IF IsPrime(lo) THEN <<lo>> ELSE <<>>)
    ELSE LET mid == (lo + hi) \div 2
         IN  PrimesIn(lo, mid) \o PrimesIn(mid + 1, hi)

\* Every prime the model can ask for, sieved once.
PrimeSieve == PrimesIn(2, MaxValue)

primesieve_generate_primes(start, stop) ==
    SelectSeq(PrimeSieve, LAMBDA q : q >= start /\ q <= stop)

(***************************************************************************)
(* The heap: which blocks are live, which were released, and which were    *)
(* released while not live (a double or a wild free).                      *)
(***************************************************************************)
EmptyHeap == [live |-> {}, released |-> {}, bad |-> {}]

\* Blocks are named by integers: node n of a table by n >= 0, the others below.
PrimesBlock == -1
TableBlock == -2
BucketsBlock == -3
NodeBlock(n) == n

\* malloc / calloc / primesieve's allocation, when it succeeds.
Alloc(h, b) == [h EXCEPT !.live = @ \cup {b}]

\* free / primesieve_free of one block.
Free(h, b) ==
    IF b \in h.live
    THEN [h EXCEPT !.live = @ \ {b}, !.released = @ \cup {b}]
    ELSE [h EXCEPT !.bad = @ \cup {b}]

(***************************************************************************)
(* The chained hash set.  A bucket is the sequence of its nodes, head     *)
(* first; bucket i of the C array is buckets[i + 1].                       *)
(***************************************************************************)
\* n copies of x: what calloc and the vector constructors produce.
RECURSIVE Filled(_, _)
Filled(n, x) ==
    IF n <= 0 THEN <<>>
    ELSE IF n = 1 THEN <<x>>
    ELSE Filled(n \div 2, x) \o Filled(n - (n \div 2), x)

\* A NULL hash_table_t pointer.
NullTable == [size |-> 0, count |-> 0, buckets |-> <<>>]

\* hash_table_create: hdr_ok and bkt_ok say whether malloc and calloc succeed.
hash_table_create(table_size, hdr_ok, bkt_ok, h) ==
    IF ~hdr_ok THEN [ht |-> NullTable, heap |-> h]
    ELSE IF ~bkt_ok
         THEN [ht |-> NullTable, heap |-> Free(Alloc(h, TableBlock), TableBlock)]
         ELSE [ht |-> [size |-> table_size, count |-> 0,
                       buckets |-> Filled(table_size, <<>>)],
               heap |-> Alloc(Alloc(h, TableBlock), BucketsBlock)]

\* The walk of a chain looking for value (lines 68-75 and 96-103).
ChainHas(chain, value) == \E j \in 1 .. Len(chain) : chain[j].value = value

\* Mutant: the walk for an equal value is left out, the node is always added.
hash_table_add_NoDuplicateCheck(ht, value, node_ok, id, h) ==
    IF ht = NullTable THEN [ht |-> ht, ret |-> 0, heap |-> h]
    ELSE LET index == hash_ull(value, ht.size)
         IN  IF ~node_ok THEN [ht |-> ht, ret |-> 0, heap |-> h]
             ELSE [ht |-> [ht EXCEPT
                             !.buckets[index + 1] =
                                 <<[value |-> value, id |-> id]>> \o @,
                             !.count = @ + 1],
                   ret |-> 1,
                   heap |-> Alloc(h, NodeBlock(id))]

\* Mutant: "new_node->next = NULL": the new node replaces the chain.
hash_table_add_DropsChain(ht, value, node_ok, id, h) ==
    IF ht = NullTable THEN [ht |-> ht, ret |-> 0, heap |-> h]
    ELSE LET index == hash_ull(value, ht.size)
             chain == ht.buckets[index + 1]
         IN  IF ChainHas(chain, value) THEN [ht |-> ht, ret |-> 1, heap |-> h]
             ELSE IF ~node_ok THEN [ht |-> ht, ret |-> 0, heap |-> h]
             ELSE [ht |-> [ht EXCEPT
                             !.buckets[index + 1] = <<[value |-> value, id |-> id]>>,
                             !.count = @ + 1],
                   ret |-> 1,
                   heap |-> Alloc(h, NodeBlock(id))]

\* hash_table_add: node_ok says whether malloc of the node succeeds, id names
\* the node allocated.  ret is the int returned, h the heap afterwards.
hash_table_add(ht, value, node_ok, id, h) ==
    IF ht = NullTable THEN [ht |-> ht, ret |-> 0, heap |-> h]
    ELSE LET index == hash_ull(value, ht.size)
             chain == ht.buckets[index + 1]
         IN  IF ChainHas(chain, value) THEN [ht |-> ht, ret |-> 1, heap |-> h]
             ELSE IF ~node_ok THEN [ht |-> ht, ret |-> 0, heap |-> h]
             ELSE [ht |-> [ht EXCEPT
                             !.buckets[index + 1] =
                                 <<[value |-> value, id |-> id]>> \o @,
                             !.count = @ + 1],
                   ret |-> 1,
                   heap |-> Alloc(h, NodeBlock(id))]

\* Mutant: only the head of the chain is compared, the walk is left out.
hash_table_contains_HeadOnly(ht, value) ==
    IF ht = NullTable THEN FALSE
    ELSE LET chain == ht.buckets[hash_ull(value, ht.size) + 1]
         IN  chain # <<>> /\ chain[1].value = value

\* hash_table_contains
hash_table_contains(ht, value) ==
    IF ht = NullTable THEN FALSE
    ELSE ChainHas(ht.buckets[hash_ull(value, ht.size) + 1], value)

\* The number of nodes on the chains of buckets lo..hi.
RECURSIVE ChainNodes(_, _, _)
ChainNodes(buckets, lo, hi) ==
    IF lo > hi THEN 0
    ELSE IF lo = hi THEN Len(buckets[lo])
    ELSE LET mid == (lo + hi) \div 2
         IN  ChainNodes(buckets, lo, mid) + ChainNodes(buckets, mid + 1, hi)

\* Mutant: the chains are not walked, only the bucket array and the header
\* are freed.
hash_table_destroy_LeaksNodes(ht, h) ==
    IF ht = NullTable THEN h
    ELSE Free(Free(h, BucketsBlock), TableBlock)

\* hash_table_destroy: every node of every chain, then the bucket array, then
\* the header.  A node met twice on the walk is freed twice.
hash_table_destroy(ht, h) ==
    IF ht = NullTable THEN h
    ELSE LET ids == UNION {{NodeBlock(ht.buckets[b][j].id) :
                               j \in 1 .. Len(ht.buckets[b])} : b \in 1 .. ht.size}
             twice == IF Cardinality(ids) = ChainNodes(ht.buckets, 1, ht.size)
                      THEN {}
                      ELSE {x \in ids :
                              \E b1, b2 \in 1 .. ht.size :
                                \E j1 \in 1 .. Len(ht.buckets[b1]),
                                   j2 \in 1 .. Len(ht.buckets[b2]) :
                                  /\ <<b1, j1>> # <<b2, j2>>
                                  /\ NodeBlock(ht.buckets[b1][j1].id) = x
                                  /\ NodeBlock(ht.buckets[b2][j2].id) = x}
             h1 == [live |-> h.live \ ids,
                    released |-> h.released \cup (ids \cap h.live),
                    bad |-> h.bad \cup (ids \ h.live) \cup twice]
         IN  Free(Free(h1, BucketsBlock), TableBlock)

\* The members of the set, read off the chains.
TableValues(ht) ==
    IF ht = NullTable THEN {}
    ELSE UNION {{ht.buckets[b][j].value : j \in 1 .. Len(ht.buckets[b])} :
                b \in 1 .. ht.size}

(***************************************************************************)
(* The truncation loop, "while (temp_prime > 0)": ok is is_r_truncatable   *)
(* when the loop ends, queries the number of membership tests made.        *)
(***************************************************************************)
\* Mutant: "while (temp_prime > 9)": the last digit is never tested.
RECURSIVE TruncLoopHash_SkipsLastDigit(_, _, _)
TruncLoopHash_SkipsLastDigit(ht, temp_prime, q) ==
    IF temp_prime > 9
    THEN IF ~hash_table_contains(ht, temp_prime)
         THEN [ok |-> FALSE, queries |-> q + 1]
         ELSE TruncLoopHash_SkipsLastDigit(ht, temp_prime \div 10, q + 1)
    ELSE [ok |-> TRUE, queries |-> q]

RECURSIVE TruncLoopHash(_, _, _)
TruncLoopHash(ht, temp_prime, q) ==
    IF temp_prime > 0
    THEN IF ~hash_table_contains(ht, temp_prime)
         THEN [ok |-> FALSE, queries |-> q + 1]
         ELSE TruncLoopHash(ht, temp_prime \div 10, q + 1)
    ELSE [ok |-> TRUE, queries |-> q]

\* Mutant: the vector is indexed as if it were one-based.
BitsetHas_OneBased(bits, v) == ~(v >= Len(bits)) /\ bits[v]

\* "temp_prime >= prime_bitset.size() || !prime_bitset[temp_prime]" negated;
\* element v of the vector is bits[v + 1].
BitsetHas(bits, v) == ~(v >= Len(bits)) /\ bits[v + 1]

\* Mutant: "while (temp_prime > 9)": the last digit is never tested.
RECURSIVE TruncLoopBitset_SkipsLastDigit(_, _, _)
TruncLoopBitset_SkipsLastDigit(bits, temp_prime, q) ==
    IF temp_prime > 9
    THEN IF ~BitsetHas(bits, temp_prime)
         THEN [ok |-> FALSE, queries |-> q + 1]
         ELSE TruncLoopBitset_SkipsLastDigit(bits, temp_prime \div 10, q + 1)
    ELSE [ok |-> TRUE, queries |-> q]

RECURSIVE TruncLoopBitset(_, _, _)
TruncLoopBitset(bits, temp_prime, q) ==
    IF temp_prime > 0
    THEN IF ~BitsetHas(bits, temp_prime)
         THEN [ok |-> FALSE, queries |-> q + 1]
         ELSE TruncLoopBitset(bits, temp_prime \div 10, q + 1)
    ELSE [ok |-> TRUE, queries |-> q]

(***************************************************************************)
(* State.                                                                  *)
(***************************************************************************)
VARIABLES
    prog,        \* which program runs: "hash" or "bitset"
    entry,       \* "main": the program is run; "function": the function is called
    argc,        \* main's argc
    digits,      \* atoi(argv[1]), or the argument of the direct call
    pc,          \* where the run is
    site,        \* the call site count_right_trunc_primes returns to
    f_digits,    \* count_right_trunc_primes' parameter digits
    all_primes_array,         \* the generated primes (<<>> when none is held)
    prime_hash_set,           \* hash-set variant: the table, or NullTable
    prime_bitset,             \* bitset variant: the vector<bool>
    primes_per_digit,         \* bitset variant: element k is primes_per_digit[k + 1]
    idx,                      \* the running index i of the current for loop
    right_truncatable_count,
    ret,                      \* the value count_right_trunc_primes returned
    loop_i,                   \* main's loop variable i
    total_count,
    stdout, stderr, exit_code,
    heap,        \* the blocks of the current call
    next_id,     \* names the next node allocated
    gen_calls,   \* calls of primesieve_generate_primes in this run
    builds,      \* membership indexes created in this run
    tested,      \* the candidates whose truncations the current call tested
    queries,     \* membership tests made for the last candidate
    calls,       \* the calls of count_right_trunc_primes that returned
    h_stdout, h_calls,        \* what a completed hash-set run left behind
    t_prev, t_value, t_members, \* table harness: see TableAdd
    temp_prime, is_r_truncatable \* the truncation loop's locals, when it is run turn by turn

inputVars == <<entry, argc, digits>>
frameVars == <<f_digits, all_primes_array, prime_hash_set, idx,
               right_truncatable_count>>
bitVars == <<prime_bitset, primes_per_digit>>
mainVars == <<loop_i, total_count>>
ioVars == <<stdout, stderr, exit_code>>
ghostVars == <<heap, next_id, gen_calls, builds, tested, queries>>
keptVars == <<h_stdout, h_calls>>
tableVars == <<t_prev, t_value, t_members>>
loopVars == <<temp_prime, is_r_truncatable>>

vars == <<prog, inputVars, pc, site, frameVars, bitVars, ret, mainVars, ioVars,
          ghostVars, calls, keptVars, tableVars, loopVars>>

\* The values of argv[1] tried: every valid bound of the model, and invalid ones.
InvalidDigitInputs == {-1, 0, DigitLimit + 1}
DigitInputs == (1 .. MaxDigits) \cup InvalidDigitInputs

Msg(m, a) == [msg |-> m, arg |-> a]

Init ==
    /\ prog \in {"hash", "bitset"}
    /\ entry \in {"main", "function"}
    /\ argc \in 1 .. 3
    /\ digits \in DigitInputs
    /\ entry = "function" => argc = 2
    \* A direct call of the bitset variant's function passes empty vectors,
    \* which is what a caller has when digits names no range.
    /\ (entry = "function" /\ prog = "bitset") => digits \in InvalidDigitInputs
    /\ pc = IF entry = "main" THEN "main" ELSE "call"
    /\ site = IF entry = "main" THEN "none" ELSE "direct"
    /\ f_digits = IF entry = "main" THEN 0 ELSE digits
    /\ all_primes_array = <<>>
    /\ prime_hash_set = NullTable
    /\ prime_bitset = <<>>
    /\ primes_per_digit = <<>>
    /\ idx = 0
    /\ right_truncatable_count = 0
    /\ ret = 0
    /\ loop_i = 0
    /\ total_count = 0
    /\ stdout = <<>>
    /\ stderr = <<>>
    /\ exit_code = 0
    /\ heap = EmptyHeap
    /\ next_id = 0
    /\ gen_calls = 0
    /\ builds = 0
    /\ tested = {}
    /\ queries = 0
    /\ calls = <<>>
    /\ h_stdout = <<>>
    /\ h_calls = <<>>
    /\ t_prev = NullTable
    /\ t_value = 0
    /\ t_members = {}
    /\ temp_prime = 0
    /\ is_r_truncatable = 0

(***************************************************************************)
(* Shared steps.                                                           *)
(***************************************************************************)
\* count_right_trunc_primes returns v.
Return(v) ==
    /\ ret' = v
    /\ pc' = "ret"
    /\ calls' = Append(calls, [digits |-> f_digits, ret |-> v])

\* The process ends with status code.
Exit(code) ==
    /\ exit_code' = code
    /\ pc' = "exit"

CountLine(k, count, n) == [kind |-> "count", digits |-> k, count |-> count, n |-> n]
TotalLine(k, count, n) == [kind |-> "total", digits |-> k, count |-> count, n |-> n]

(***************************************************************************)
(* Hash-set variant: main up to the first call (lines 242-266).            *)
(***************************************************************************)
HashMain ==
    /\ pc = "main" /\ prog = "hash"
    /\ IF argc # 2
       THEN /\ stderr' = Append(stderr, Msg("Usage: <number_of_digits>", 0))
            /\ Exit(1)
            /\ UNCHANGED <<site, f_digits>>
       ELSE IF MainRejects(digits)
       THEN /\ stderr' = Append(stderr, Msg("Error: digits must be between 1 and 19", 0))
            /\ Exit(1)
            /\ UNCHANGED <<site, f_digits>>
       ELSE /\ pc' = "call" /\ site' = "first" /\ f_digits' = digits
            /\ UNCHANGED <<stderr, exit_code>>
    /\ UNCHANGED <<prog, inputVars, all_primes_array, prime_hash_set, idx,
                   right_truncatable_count, bitVars, ret, mainVars, stdout,
                   ghostVars, calls, keptVars, tableVars, loopVars>>

(***************************************************************************)
(* Hash-set variant: count_right_trunc_primes (lines 153-239).             *)
(***************************************************************************)
\* Lines 153-173: the guard, then the generation of all primes up to 10^digits - 1.
HashCall ==
    /\ pc = "call" /\ prog = "hash"
    /\ \E gen_ok \in BOOLEAN :
         IF DigitsOutOfRange(f_digits)
         THEN /\ stderr' = Append(stderr, Msg("Error: digits must be between 1 and 19", 0))
              /\ Return(-1)
              /\ heap' = EmptyHeap
              /\ UNCHANGED <<gen_calls, all_primes_array>>
         ELSE /\ gen_calls' = gen_calls + 1
              /\ IF ~gen_ok
                 THEN /\ stderr' = Append(stderr,
                             Msg("Error: primesieve_generate_primes for all primes returned NULL", 0))
                      /\ Return(-1)
                      /\ heap' = EmptyHeap
                      /\ UNCHANGED all_primes_array
                 ELSE /\ all_primes_array' =
                             primesieve_generate_primes(2, power_of_10(f_digits) - 1)
                      /\ heap' = Alloc(EmptyHeap, PrimesBlock)
                      /\ pc' = "create"
                      /\ UNCHANGED <<ret, calls, stderr>>
    /\ next_id' = 0 /\ tested' = {} /\ queries' = 0
    /\ UNCHANGED <<prog, inputVars, site, f_digits, prime_hash_set, idx,
                   right_truncatable_count, bitVars, mainVars, stdout, exit_code,
                   builds, keptVars, tableVars, loopVars>>

\* Lines 175-183: the table is sized from the prime count and created.
HashCreate ==
    /\ pc = "create"
    /\ \E hdr_ok, bkt_ok \in BOOLEAN :
         LET all_primes_count == Len(all_primes_array)
             initial_hash_table_size ==
                 IF all_primes_count = 0 THEN EmptyTableSize ELSE all_primes_count * 2
             c == hash_table_create(initial_hash_table_size, hdr_ok, bkt_ok, heap)
         IN  IF c.ht = NullTable
             THEN /\ stderr' = Append(stderr, Msg("Error creating hash set.", 0))
                  /\ heap' = Free(c.heap, PrimesBlock)
                  /\ Return(-1)
                  /\ all_primes_array' = <<>>
                  /\ UNCHANGED <<prime_hash_set, builds, right_truncatable_count>>
             ELSE /\ prime_hash_set' = c.ht
                  /\ heap' = c.heap
                  /\ builds' = builds + 1
                  /\ right_truncatable_count' = 0
                  /\ pc' = IF all_primes_count > 0 THEN "populate" ELSE "cleanup"
                  /\ UNCHANGED <<stderr, ret, calls, all_primes_array>>
    /\ idx' = 0
    /\ UNCHANGED <<prog, inputVars, site, f_digits, bitVars, mainVars, stdout,
                   exit_code, next_id, gen_calls, tested, queries, keptVars,
                   tableVars, loopVars>>

\* Lines 185-194: one turn of the loop that adds every prime to the table.
HashPopulate ==
    /\ pc = "populate"
    /\ \E node_fails \in BOOLEAN :
         LET value == all_primes_array[idx + 1]
             a == hash_table_add(prime_hash_set, value, ~node_fails, next_id, heap)
         IN  IF a.ret = 0
             THEN /\ stderr' = Append(stderr, Msg("Error adding prime to hash set", value))
                  /\ heap' = Free(hash_table_destroy(a.ht, a.heap), PrimesBlock)
                  /\ Return(-1)
                  /\ prime_hash_set' = NullTable
                  /\ all_primes_array' = <<>>
                  /\ idx' = 0
                  /\ UNCHANGED next_id
             ELSE /\ prime_hash_set' = a.ht
                  /\ heap' = a.heap
                  /\ next_id' = IF a.heap # heap THEN next_id + 1 ELSE next_id
                  /\ IF idx + 1 < Len(all_primes_array)
                     THEN idx' = idx + 1 /\ pc' = "populate"
                     ELSE idx' = 0 /\ pc' = "scan"
                  /\ UNCHANGED <<stderr, ret, calls, all_primes_array>>
    /\ UNCHANGED <<prog, inputVars, site, f_digits, right_truncatable_count,
                   bitVars, mainVars, stdout, exit_code, gen_calls, builds,
                   tested, queries, keptVars, tableVars, loopVars>>

\* Lines 202-232: one turn of the scan over the primes: the window test, the
\* truncation loop and the count.
HashScan ==
    /\ pc = "scan" /\ prog = "hash"
    /\ LET current_prime == all_primes_array[idx + 1]
           t == TruncLoopHash(prime_hash_set, current_prime, 0)
       IN  IF OutsideWindow(current_prime, f_digits)
           THEN UNCHANGED <<right_truncatable_count, tested, queries>>
           ELSE /\ tested' = tested \cup {current_prime}
                /\ queries' = t.queries
                /\ right_truncatable_count' =
                       IF t.ok THEN right_truncatable_count + 1
                       ELSE right_truncatable_count
    /\ idx' = idx + 1
    /\ pc' = IF idx + 1 < Len(all_primes_array) THEN "scan" ELSE "cleanup"
    /\ UNCHANGED <<prog, inputVars, site, f_digits, all_primes_array,
                   prime_hash_set, bitVars, ret, mainVars, ioVars, heap, next_id,
                   gen_calls, builds, calls, keptVars, tableVars, loopVars>>

\* Lines 234-238: the table and the prime array are released, the count returned.
HashCleanup ==
    /\ pc = "cleanup"
    /\ heap' = Free(hash_table_destroy(prime_hash_set, heap), PrimesBlock)
    /\ Return(right_truncatable_count)
    /\ prime_hash_set' = NullTable
    /\ all_primes_array' = <<>>
    /\ idx' = 0
    /\ UNCHANGED <<prog, inputVars, site, f_digits, right_truncatable_count,
                   bitVars, mainVars, ioVars, next_id, gen_calls, builds, tested,
                   queries, keptVars, tableVars, loopVars>>

(***************************************************************************)
(* Hash-set variant: main after a call returned (lines 266-290).           *)
(***************************************************************************)
\* Lines 266-278: the first call's result is printed, then the total loop starts.
HashReturnFirst ==
    /\ pc = "ret" /\ prog = "hash" /\ site = "first"
    /\ IF ret < 0
       THEN /\ stderr' = Append(stderr, Msg("Error counting right-truncatable primes.", 0))
            /\ Exit(1)
            /\ UNCHANGED <<stdout, site, f_digits, mainVars>>
       ELSE /\ total_count' = 0
            /\ loop_i' = 1
            /\ IF 1 <= digits
               THEN /\ stdout' = Append(stdout, CountLine(digits, ret, -1))
                    /\ pc' = "call" /\ site' = "loop" /\ f_digits' = 1
                    /\ UNCHANGED exit_code
               ELSE /\ stdout' = Append(Append(stdout, CountLine(digits, ret, -1)),
                                        TotalLine(digits, 0, -1))
                    /\ Exit(0)
                    /\ UNCHANGED <<site, f_digits>>
            /\ UNCHANGED stderr
    /\ UNCHANGED <<prog, inputVars, all_primes_array, prime_hash_set, idx,
                   right_truncatable_count, bitVars, ret, ghostVars, calls,
                   keptVars, tableVars, loopVars>>

\* Lines 278-290: a call of the total loop returned.
HashReturnLoop ==
    /\ pc = "ret" /\ prog = "hash" /\ site = "loop"
    /\ IF ret < 0
       THEN /\ stderr' = Append(stderr,
                   Msg("Error counting right-truncatable primes for %d digits.", loop_i))
            /\ Exit(1)
            /\ UNCHANGED <<stdout, site, f_digits, mainVars>>
       ELSE /\ total_count' = total_count + ret
            /\ loop_i' = loop_i + 1
            /\ IF loop_i + 1 <= digits
               THEN /\ pc' = "call" /\ f_digits' = loop_i + 1
                    /\ UNCHANGED <<stdout, exit_code>>
               ELSE /\ stdout' = Append(stdout, TotalLine(digits, total_count + ret, -1))
                    /\ Exit(0)
                    /\ UNCHANGED f_digits
            /\ UNCHANGED <<stderr, site>>
    /\ UNCHANGED <<prog, inputVars, all_primes_array, prime_hash_set, idx,
                   right_truncatable_count, bitVars, ret, ghostVars, calls,
                   keptVars, tableVars, loopVars>>

\* A direct call of count_right_trunc_primes returned to its caller.
ReturnDirect ==
    /\ pc = "ret" /\ site = "direct"
    /\ pc' = "done"
    /\ UNCHANGED <<prog, inputVars, site, frameVars, bitVars, ret, mainVars,
                   ioVars, ghostVars, calls, keptVars, tableVars, loopVars>>

(***************************************************************************)
(* Bitset variant: main (lines 366-440).                                   *)
(***************************************************************************)
\* Lines 366-405: the argument checks, the one generation of all primes up to
\* 10^digits - 1, the copy into a vector and the allocation of the bit table.
\* vec_ok is false when one of the two vectors cannot be allocated: the
\* std::bad_alloc is not caught and the process is aborted.
BitsetMain ==
    /\ pc = "main" /\ prog = "bitset"
    /\ \E gen_ok, vec_ok \in BOOLEAN :
         IF argc # 2
         THEN /\ stderr' = Append(stderr, Msg("Usage: <number_of_digits>", 0))
              /\ Exit(1)
              /\ UNCHANGED <<all_primes_array, prime_bitset, heap, gen_calls, builds>>
         ELSE IF MainRejects(digits)
         THEN /\ stderr' = Append(stderr, Msg("Error: digits must be between 1 and 19", 0))
              /\ Exit(1)
              /\ UNCHANGED <<all_primes_array, prime_bitset, heap, gen_calls, builds>>
         ELSE /\ gen_calls' = gen_calls + 1
              /\ IF ~gen_ok
                 THEN /\ stderr' = Append(stderr, Msg("Error generating primes.", 0))
                      /\ Exit(1)
                      /\ UNCHANGED <<all_primes_array, prime_bitset, heap, builds>>
                 ELSE IF ~vec_ok
                 THEN /\ stderr' = Append(stderr, Msg("terminate: std::bad_alloc", 0))
                      /\ Exit(134)
                      /\ heap' = Alloc(EmptyHeap, PrimesBlock)
                      /\ UNCHANGED <<all_primes_array, prime_bitset, builds>>
                 ELSE /\ all_primes_array' =
                             primesieve_generate_primes(2, power_of_10(digits) - 1)
                      /\ heap' = Free(Alloc(EmptyHeap, PrimesBlock), PrimesBlock)
                      /\ prime_bitset' = Filled(power_of_10(digits), FALSE)
                      /\ builds' = builds + 1
                      /\ pc' = "build"
                      /\ UNCHANGED <<stderr, exit_code>>
    /\ idx' = 0
    /\ UNCHANGED <<prog, inputVars, site, f_digits, prime_hash_set,
                   primes_per_digit, right_truncatable_count, ret, mainVars,
                   stdout, next_id, tested, queries, calls, keptVars, tableVars, loopVars>>

\* Lines 406-417: one turn of the loop that sets the bit of every prime; after
\* the last turn primes_per_digit is allocated and the descending loop over the
\* digit lengths makes its first call.
BitsetBuild ==
    /\ pc = "build"
    /\ \E vec_ok \in BOOLEAN :
         LET done == idx + 1 >= Len(all_primes_array)
         IN  /\ IF idx < Len(all_primes_array)
                THEN prime_bitset' =
                         [prime_bitset EXCEPT ![all_primes_array[idx + 1] + 1] = TRUE]
                ELSE UNCHANGED prime_bitset
             /\ IF ~done
                THEN /\ idx' = idx + 1
                     /\ UNCHANGED <<pc, primes_per_digit, mainVars, site, f_digits,
                                    ioVars>>
                ELSE IF ~vec_ok
                THEN /\ stderr' = Append(stderr, Msg("terminate: std::bad_alloc", 0))
                     /\ Exit(134)
                     /\ UNCHANGED <<idx, primes_per_digit, mainVars, site, f_digits,
                                    stdout>>
                ELSE /\ primes_per_digit' = Filled(digits + 1, 0)
                     /\ total_count' = 0
                     /\ loop_i' = digits
                     /\ idx' = 0
                     /\ IF digits > 0
                        THEN /\ pc' = "call" /\ site' = "loop" /\ f_digits' = digits
                             /\ UNCHANGED ioVars
                        ELSE /\ stdout' = Append(stdout,
                                    TotalLine(digits, 0, Len(all_primes_array)))
                             /\ Exit(0)
                             /\ UNCHANGED <<stderr, site, f_digits>>
    /\ UNCHANGED <<prog, inputVars, all_primes_array, prime_hash_set,
                   right_truncatable_count, ret, ghostVars, calls, keptVars,
                   tableVars, loopVars>>

(***************************************************************************)
(* Bitset variant: count_right_trunc_primes (lines 317-363).               *)
(***************************************************************************)
\* Lines 317-332: the guard, then primes_per_digit[digits] = 0.
BitsetCall ==
    /\ pc = "call" /\ prog = "bitset"
    /\ IF DigitsOutOfRange(f_digits)
       THEN /\ stderr' = Append(stderr, Msg("Error: digits must be between 1 and 19", 0))
            /\ Return(-1)
            /\ UNCHANGED primes_per_digit
       ELSE /\ primes_per_digit' = [primes_per_digit EXCEPT ![f_digits + 1] = 0]
            /\ IF Len(all_primes_array) > 0
               THEN pc' = "scan" /\ UNCHANGED <<ret, calls>>
               ELSE Return(0)
            /\ UNCHANGED stderr
    /\ idx' = 0 /\ right_truncatable_count' = 0
    /\ tested' = {} /\ queries' = 0
    /\ UNCHANGED <<prog, inputVars, site, f_digits, all_primes_array,
                   prime_hash_set, prime_bitset, mainVars, stdout, exit_code,
                   heap, next_id, gen_calls, builds, keptVars, tableVars, loopVars>>

\* Lines 334-362: one turn of the scan: "continue" below the window, "break"
\* above it, else the truncation loop and the count; the function returns when
\* the loop ends.
BitsetScan ==
    /\ pc = "scan" /\ prog = "bitset"
    /\ LET current_prime == all_primes_array[idx + 1]
           last == idx + 1 >= Len(all_primes_array)
           t == TruncLoopBitset(prime_bitset, current_prime, 0)
           counted == IF t.ok THEN right_truncatable_count + 1
                      ELSE right_truncatable_count
       IN  IF BelowWindow(current_prime, f_digits)
           THEN /\ IF last THEN Return(right_truncatable_count)
                           ELSE UNCHANGED <<pc, ret, calls>>
                /\ UNCHANGED <<right_truncatable_count, primes_per_digit, tested,
                               queries>>
           ELSE IF AboveWindow(current_prime, f_digits)
           THEN /\ Return(right_truncatable_count)
                /\ UNCHANGED <<right_truncatable_count, primes_per_digit, tested,
                               queries>>
           ELSE /\ primes_per_digit' =
                       [primes_per_digit EXCEPT ![f_digits + 1] = @ + 1]
                /\ tested' = tested \cup {current_prime}
                /\ queries' = t.queries
                /\ right_truncatable_count' = counted
                /\ IF last THEN Return(counted) ELSE UNCHANGED <<pc, ret, calls>>
    /\ idx' = idx + 1
    /\ UNCHANGED <<prog, inputVars, site, f_digits, all_primes_array,
                   prime_hash_set, prime_bitset, mainVars, ioVars, heap, next_id,
                   gen_calls, builds, keptVars, tableVars, loopVars>>

\* Lines 417-439: a call of the descending loop returned: its line is printed,
\* and after the last one the total.
BitsetReturn ==
    /\ pc = "ret" /\ prog = "bitset" /\ site = "loop"
    /\ IF ret < 0
       THEN /\ stderr' = Append(stderr,
                   Msg("Error counting right-truncatable primes for %d digits.", loop_i))
            /\ Exit(1)
            /\ UNCHANGED <<stdout, f_digits, mainVars>>
       ELSE /\ total_count' = total_count + ret
            /\ loop_i' = loop_i - 1
            /\ IF loop_i - 1 > 0
               THEN /\ stdout' = Append(stdout,
                           CountLine(loop_i, ret, primes_per_digit[loop_i + 1]))
                    /\ pc' = "call" /\ f_digits' = loop_i - 1
                    /\ UNCHANGED exit_code
               ELSE /\ stdout' = Append(Append(stdout,
                           CountLine(loop_i, ret, primes_per_digit[loop_i + 1])),
                           TotalLine(digits, total_count + ret, Len(all_primes_array)))
                    /\ Exit(0)
                    /\ UNCHANGED f_digits
            /\ UNCHANGED stderr
    /\ UNCHANGED <<prog, inputVars, site, all_primes_array, prime_hash_set, idx,
                   right_truncatable_count, bitVars, ret, ghostVars, calls,
                   keptVars, tableVars, loopVars>>

(***************************************************************************)
(* The two programs on one command line: after the hash-set program ran    *)
(* to completion, the bitset program is run with the same arguments; what  *)
(* the first run printed and returned is kept for comparison.              *)
(***************************************************************************)
RunBitsetVariant ==
    /\ pc = "exit" /\ prog = "hash" /\ exit_code = 0
    /\ prog' = "bitset"
    /\ pc' = "main"
    /\ h_stdout' = stdout
    /\ h_calls' = calls
    /\ site' = "none"
    /\ f_digits' = 0
    /\ stdout' = <<>> /\ stderr' = <<>>
    /\ calls' = <<>>
    /\ heap' = EmptyHeap
    /\ next_id' = 0 /\ gen_calls' = 0 /\ builds' = 0
    /\ tested' = {} /\ queries' = 0
    /\ ret' = 0 /\ loop_i' = 0 /\ total_count' = 0
    /\ right_truncatable_count' = 0
    /\ UNCHANGED <<inputVars, all_primes_array, prime_hash_set, idx, bitVars,
                   exit_code, tableVars, loopVars>>

(***************************************************************************)
(* The hash table on its own: a table of any small size, and hash_table_add*)
(* called with any small value, any number of times, malloc failing or not.*)
(***************************************************************************)
InitTable ==
    /\ prog = "hash"
    /\ entry = "function"
    /\ argc = 2
    /\ digits = 0
    /\ pc = "table"
    /\ site = "none"
    /\ f_digits = 0
    /\ all_primes_array = <<>>
    /\ \E table_size \in 1 .. MaxTableSize :
         LET c == hash_table_create(table_size, TRUE, TRUE, EmptyHeap)
         IN  prime_hash_set = c.ht /\ heap = c.heap
    /\ prime_bitset = <<>>
    /\ primes_per_digit = <<>>
    /\ idx = 0
    /\ right_truncatable_count = 0
    /\ ret = 0
    /\ loop_i = 0
    /\ total_count = 0
    /\ stdout = <<>>
    /\ stderr = <<>>
    /\ exit_code = 0
    /\ next_id = 0
    /\ gen_calls = 0
    /\ builds = 1
    /\ tested = {}
    /\ queries = 0
    /\ calls = <<>>
    /\ h_stdout = <<>>
    /\ h_calls = <<>>
    /\ t_prev = NullTable
    /\ t_value = 0
    /\ t_members = {}
    /\ temp_prime = 0
    /\ is_r_truncatable = 0

\* hash_table_add(prime_hash_set, value).  t_prev is the table before the call,
\* t_value its argument, t_members the values whose add had returned 1 before
\* this call.
TableAdd ==
    /\ pc = "table"
    /\ \E value \in 0 .. MaxTableValue, node_ok \in BOOLEAN :
         LET a == hash_table_add(prime_hash_set, value, node_ok, next_id, heap)
         IN  /\ t_prev' = prime_hash_set
             /\ t_value' = value
             /\ ret' = a.ret
             /\ prime_hash_set' = a.ht
             /\ heap' = a.heap
             /\ next_id' = IF a.heap # heap THEN next_id + 1 ELSE next_id
             /\ t_members' = IF t_prev # NullTable /\ ret = 1
                              THEN t_members \cup {t_value} ELSE t_members
    /\ UNCHANGED <<prog, inputVars, pc, site, f_digits, all_primes_array, idx,
                   right_truncatable_count, bitVars, mainVars, ioVars, gen_calls,
                   builds, tested, queries, calls, keptVars, loopVars>>

NextTable == TableAdd

SpecTable == InitTable /\ [][NextTable]_vars

Next ==
    \/ HashMain
    \/ HashCall
    \/ HashCreate
    \/ HashPopulate
    \/ HashScan
    \/ HashCleanup
    \/ HashReturnFirst
    \/ HashReturnLoop
    \/ ReturnDirect
    \/ BitsetMain
    \/ BitsetBuild
    \/ BitsetCall
    \/ BitsetScan
    \/ BitsetReturn
    \/ RunBitsetVariant

Spec == Init /\ [][Next]_vars

(***************************************************************************)
(* The scan with the truncation loop run turn by turn: one step enters the *)
(* body of the for loop, one step is one turn of "while (temp_prime > 0)", *)
(* one step counts the candidate and advances the for loop.  pc is "trunc" *)
(* inside the while loop and "count" after it.                             *)
(***************************************************************************)
\* Mutant: the digit is not removed.
Truncate_KeepsDigit(v) == v

\* Lines 224 and 356: "temp_prime /= 10".
Truncate(v) == v \div 10

\* Lines 202-213: the for loop's test of the window, then the loop's locals.
HashScanEnter ==
    /\ pc = "scan" /\ prog = "hash"
    /\ LET current_prime == all_primes_array[idx + 1]
       IN  IF OutsideWindow(current_prime, f_digits)
           THEN /\ idx' = idx + 1
                /\ pc' = IF idx + 1 < Len(all_primes_array) THEN "scan" ELSE "cleanup"
                /\ UNCHANGED <<tested, queries, loopVars>>
           ELSE /\ is_r_truncatable' = 1
                /\ temp_prime' = current_prime
                /\ tested' = tested \cup {current_prime}
                /\ queries' = 0
                /\ pc' = "trunc"
                /\ UNCHANGED idx
    /\ UNCHANGED <<prog, inputVars, site, f_digits, all_primes_array,
                   prime_hash_set, right_truncatable_count, bitVars, ret,
                   mainVars, ioVars, heap, next_id, gen_calls, builds, calls,
                   keptVars, tableVars>>

\* Lines 215-225: one turn of the while loop, or its end.
HashTruncTurn ==
    /\ pc = "trunc" /\ prog = "hash"
    /\ IF temp_prime > 0
       THEN /\ queries' = queries + 1
            /\ IF ~hash_table_contains(prime_hash_set, temp_prime)
               THEN /\ is_r_truncatable' = 0
                    /\ pc' = "count"
                    /\ UNCHANGED temp_prime
               ELSE /\ temp_prime' = Truncate(temp_prime)
                    /\ UNCHANGED <<is_r_truncatable, pc>>
       ELSE /\ pc' = "count"
            /\ UNCHANGED <<queries, loopVars>>
    /\ UNCHANGED <<prog, inputVars, site, frameVars, bitVars, ret, mainVars,
                   ioVars, heap, next_id, gen_calls, builds, tested, calls,
                   keptVars, tableVars>>

\* Lines 227-232: the candidate is counted and the for loop advances.
HashScanCount ==
    /\ pc = "count" /\ prog = "hash"
    /\ right_truncatable_count' =
           IF is_r_truncatable # 0 THEN right_truncatable_count + 1
           ELSE right_truncatable_count
    /\ idx' = idx + 1
    /\ pc' = IF idx + 1 < Len(all_primes_array) THEN "scan" ELSE "cleanup"
    /\ UNCHANGED <<prog, inputVars, site, f_digits, all_primes_array,
                   prime_hash_set, bitVars, ret, mainVars, ioVars, ghostVars,
                   calls, keptVars, tableVars, loopVars>>

\* Lines 334-345: "continue" below the window, "break" above it, else
\* primes_per_digit is counted and the loop's locals are set.
BitsetScanEnter ==
    /\ pc = "scan" /\ prog = "bitset"
    /\ LET current_prime == all_primes_array[idx + 1]
           last == idx + 1 >= Len(all_primes_array)
       IN  IF BelowWindow(current_prime, f_digits)
           THEN /\ IF last THEN Return(right_truncatable_count)
                           ELSE UNCHANGED <<pc, ret, calls>>
                /\ idx' = idx + 1
                /\ UNCHANGED <<primes_per_digit, tested, queries, loopVars>>
           ELSE IF AboveWindow(current_prime, f_digits)
           THEN /\ Return(right_truncatable_count)
                /\ idx' = idx + 1
                /\ UNCHANGED <<primes_per_digit, tested, queries, loopVars>>
           ELSE /\ primes_per_digit' =
                       [primes_per_digit EXCEPT ![f_digits + 1] = @ + 1]
                /\ is_r_truncatable' = 1
                /\ temp_prime' = current_prime
                /\ tested' = tested \cup {current_prime}
                /\ queries' = 0
                /\ pc' = "trunc"
                /\ UNCHANGED <<idx, ret, calls>>
    /\ UNCHANGED <<prog, inputVars, site, f_digits, all_primes_array,
                   prime_hash_set, prime_bitset, right_truncatable_count,
                   mainVars, ioVars, heap, next_id, gen_calls, builds, keptVars,
                   tableVars>>

\* Lines 347-357: one turn of the while loop, or its end.
BitsetTruncTurn ==
    /\ pc = "trunc" /\ prog = "bitset"
    /\ IF temp_prime > 0
       THEN /\ queries' = queries + 1
            /\ IF ~BitsetHas(prime_bitset, temp_prime)
               THEN /\ is_r_truncatable' = 0
                    /\ pc' = "count"
                    /\ UNCHANGED temp_prime
               ELSE /\ temp_prime' = Truncate(temp_prime)
                    /\ UNCHANGED <<is_r_truncatable, pc>>
       ELSE /\ pc' = "count"
            /\ UNCHANGED <<queries, loopVars>>
    /\ UNCHANGED <<prog, inputVars, site, frameVars, bitVars, ret, mainVars,
                   ioVars, heap, next_id, gen_calls, builds, tested, calls,
                   keptVars, tableVars>>

\* Lines 359-362: the candidate is counted, the for loop advances, and the
\* function returns when the loop ends.
BitsetScanCount ==
    /\ pc = "count" /\ prog = "bitset"
    /\ LET counted == IF is_r_truncatable # 0 THEN right_truncatable_count + 1
                      ELSE right_truncatable_count
       IN  /\ right_truncatable_count' = counted
           /\ IF idx + 1 >= Len(all_primes_array)
              THEN Return(counted)
              ELSE /\ pc' = "scan"
                   /\ UNCHANGED <<ret, calls>>
    /\ idx' = idx + 1
    /\ UNCHANGED <<prog, inputVars, site, f_digits, all_primes_array,
                   prime_hash_set, bitVars, mainVars, ioVars, ghostVars,
                   keptVars, tableVars, loopVars>>

\* One program, run once, its truncation loops turn by turn.
NextTurns ==
    \/ HashMain
    \/ HashCall
    \/ HashCreate
    \/ HashPopulate
    \/ HashScanEnter
    \/ HashTruncTurn
    \/ HashScanCount
    \/ HashCleanup
    \/ HashReturnFirst
    \/ HashReturnLoop
    \/ ReturnDirect
    \/ BitsetMain
    \/ BitsetBuild
    \/ BitsetCall
    \/ BitsetScanEnter
    \/ BitsetTruncTurn
    \/ BitsetScanCount
    \/ BitsetReturn

\* The program is sequential and nothing else runs: a step that can be taken
\* is taken.
LiveSpec == Init /\ [][NextTurns]_vars /\ WF_vars(NextTurns)

(***************************************************************************)
(* Reference definitions used by the properties: they test primality by    *)
(* trial division and never look at a membership index.                    *)
(***************************************************************************)
\* v and every truncation of v down to its first digit is prime.
RECURSIVE RefRightTruncatable(_)
RefRightTruncatable(v) ==
    IsPrime(v) /\ (v < 10 \/ RefRightTruncatable(v \div 10))

\* The integers with exactly k decimal digits (k >= 1).
RefLength(k) == power_of_10(k - 1) .. (power_of_10(k) - 1)

RefCount(k) == Cardinality({v \in RefLength(k) : RefRightTruncatable(v)})

RefWindow(k) == {v \in RefLength(k) : IsPrime(v)}

\* The digit bounds the command surface accepts.
ValidDigits == 1 .. DigitLimit

RangeMsg == Msg("Error: digits must be between 1 and 19", 0)
UsageMsg == Msg("Usage: <number_of_digits>", 0)

\* The run of main ended with exit status 0.
Completed == pc = "exit" /\ exit_code = 0

\* The values the calls for digit length k returned, among the calls cs.
ReturnedFor(cs, k) == {cs[j].ret : j \in {x \in 1 .. Len(cs) : cs[x].digits = k}}

\* The count of the lines of kind "total" / the count lines for k in an output.
TotalsOf(out) == {out[j].count : j \in {x \in 1 .. Len(out) : out[x].kind = "total"}}
CountsOf(out, k) ==
    {out[j].count : j \in {x \in 1 .. Len(out) :
                              out[x].kind = "count" /\ out[x].digits = k}}

\* The hash set was just populated: the scan of this call has not yet started.
HashBuilt == prog = "hash" /\ pc = "scan" /\ idx = 0

\* The bit table was just populated: the first call has not yet started.
BitsetBuilt == prog = "bitset" /\ pc = "call" /\ site = "loop" /\ loop_i = digits

(***************************************************************************)
(* C1: once the Membership Index is built from the primes of               *)
(* [2, 10^D - 1], a membership query answers true for every prime of the   *)
(* range and false for every other integer of the range, in the chained    *)
(* hash set and in the dense bit table.                                    *)
(***************************************************************************)
C1_MembershipExact ==
    /\ HashBuilt =>
         \A v \in 0 .. (power_of_10(f_digits) - 1) :
           hash_table_contains(prime_hash_set, v) = IsPrime(v)
    /\ BitsetBuilt =>
         \A v \in 0 .. (power_of_10(digits) - 1) :
           BitsetHas(prime_bitset, v) = IsPrime(v)

\* The hash set for three digits is built and some chain holds several primes.
C1_Witness ==
    /\ HashBuilt /\ f_digits = 3
    /\ \E b \in 1 .. prime_hash_set.size : Len(prime_hash_set.buckets[b]) >= 2
    /\ hash_table_contains(prime_hash_set, 997)
    /\ ~hash_table_contains(prime_hash_set, 999)

(***************************************************************************)
(* C2: the value count_right_trunc_primes returns for digit length k is    *)
(* the number of k-digit primes all of whose truncations are prime, as     *)
(* counted by trial division without any index.                            *)
(***************************************************************************)
C2_CountMatchesReference ==
    (pc = "ret" /\ ret >= 0) => ret = RefCount(f_digits)

\* The hash-set variant's call for two digits returned 9.
C2_Witness ==
    pc = "ret" /\ prog = "hash" /\ site = "loop" /\ f_digits = 2 /\ ret = 9

(***************************************************************************)
(* C3: a complete run with D = 3 yields the per-length counts 4, 9 and 14  *)
(* and reports the total 27, their sum; a complete run with D = 1 yields   *)
(* 4 and the total 4.                                                      *)
(***************************************************************************)
C3_EndToEnd ==
    Completed =>
      /\ digits = 3 =>
           /\ ReturnedFor(calls, 1) = {4}
           /\ ReturnedFor(calls, 2) = {9}
           /\ ReturnedFor(calls, 3) = {14}
           /\ CountsOf(stdout, 3) = {14}
           /\ TotalsOf(stdout) = {27}
           /\ total_count = 4 + 9 + 14
      /\ digits = 1 =>
           /\ ReturnedFor(calls, 1) = {4}
           /\ CountsOf(stdout, 1) = {4}
           /\ TotalsOf(stdout) = {4}
           /\ total_count = 4

\* The bitset variant completed a run for three digits.
C3_Witness ==
    /\ Completed /\ prog = "bitset" /\ digits = 3
    /\ stdout[Len(stdout)] = TotalLine(3, 27, 168)

(***************************************************************************)
(* C4: for a digit bound outside [1, 19] the run ends in the invalid-input *)
(* error (message on the error stream, exit status non-zero from main, -1  *)
(* from count_right_trunc_primes) and nothing is computed: no primes are   *)
(* requested, no index is created, no line is printed.                     *)
(***************************************************************************)
C4_InvalidInput ==
    digits \notin ValidDigits =>
      /\ gen_calls = 0 /\ builds = 0 /\ stdout = <<>>
      /\ heap = EmptyHeap /\ all_primes_array = <<>>
      /\ prime_hash_set = NullTable /\ prime_bitset = <<>>
      /\ pc \in {"main", "call", "ret", "exit", "done"}
      /\ pc = "exit" =>
           /\ exit_code # 0
           /\ calls = <<>>
           /\ stderr = <<IF argc = 2 THEN RangeMsg ELSE UsageMsg>>
      /\ pc \in {"ret", "done"} =>
           /\ entry = "function"
           /\ ret = -1
           /\ stderr = <<RangeMsg>>

\* A direct call with 20 digits returned -1.
C4_Witness ==
    /\ entry = "function" /\ pc = "done" /\ digits = DigitLimit + 1
    /\ ret = -1 /\ gen_calls = 0

(***************************************************************************)
(* C5: hash_table_add is idempotent: adding a value that was added before  *)
(* leaves the entry count, every chain and every membership answer         *)
(* unchanged, and returns 1.                                               *)
(***************************************************************************)
C5_AddIdempotent ==
    (pc = "table" /\ t_prev # NullTable /\ t_value \in t_members) =>
      /\ ret = 1
      /\ prime_hash_set.count = t_prev.count
      /\ prime_hash_set.buckets = t_prev.buckets
      /\ \A v \in 0 .. MaxTableValue :
           hash_table_contains(prime_hash_set, v) = hash_table_contains(t_prev, v)

\* A value already in a table with a chain of two nodes was added again.
C5_Witness ==
    /\ pc = "table" /\ t_prev # NullTable /\ t_value \in t_members
    /\ prime_hash_set.count >= 3
    /\ \E b \in 1 .. prime_hash_set.size : Len(prime_hash_set.buckets[b]) >= 2

(***************************************************************************)
(* C6: for every digit length k the candidates the scan tests are exactly  *)
(* the primes v with 10^(k-1) <= v < 10^k: none of an adjacent length is   *)
(* tested or counted, none of length k is skipped.                         *)
(***************************************************************************)
C6_WindowExact ==
    (pc = "ret" /\ ret >= 0) =>
      /\ tested = RefWindow(f_digits)
      /\ ret <= Cardinality(tested)
      /\ prog = "bitset" =>
           primes_per_digit[f_digits + 1] = Cardinality(RefWindow(f_digits))

\* The bitset variant's scan for two digits tested 11 and 97, not 7 and 101.
C6_Witness ==
    /\ pc = "ret" /\ prog = "bitset" /\ f_digits = 2 /\ digits = 3
    /\ tested \cap {7, 11, 97, 101} = {11, 97}

(***************************************************************************)
(* C7: stated for one run, the Membership Index is built exactly once, is  *)
(* fully populated with all primes up to 10^D - 1 before the first         *)
(* membership query and is never modified afterwards.                      *)
(***************************************************************************)
\* The primes up to 10^k - 1 (k <= MaxDigits), by trial division.
RefPrimeSet == {v \in 2 .. MaxValue : IsPrime(v)}
RefPrimes(k) == {v \in RefPrimeSet : v < power_of_10(k)}

C8_ReleasedOnEveryExit ==
    (prog = "hash" /\ pc = "ret") =>
      /\ heap.live = {}
      /\ heap.bad = {}
      /\ (ret = -1) = (stderr # <<>>)
      /\ stderr = <<>> =>
           /\ ret >= 0
           /\ heap.released =
                {PrimesBlock, TableBlock, BucketsBlock}
                  \cup {NodeBlock(n) : n \in 0 .. (Cardinality(RefPrimes(f_digits)) - 1)}
      /\ stderr # <<>> =>
           LET e == stderr[Len(stderr)]
           IN  /\ e.msg = "Error adding prime to hash set" =>
                    /\ {PrimesBlock, TableBlock, BucketsBlock} \subseteq heap.released
                    /\ Cardinality(heap.released) =
                         3 + Cardinality({q \in RefPrimes(f_digits) : q < e.arg})
               /\ e.msg = "Error creating hash set." =>
                    /\ PrimesBlock \in heap.released
                    /\ heap.released \subseteq {PrimesBlock, TableBlock}
               /\ e.msg \notin {"Error adding prime to hash set", "Error creating hash set."} =>
                    heap.released = {}

\* Population failed at 97: the nodes inserted so far were released.
C8_Witness ==
    /\ prog = "hash" /\ pc = "ret" /\ ret = -1 /\ f_digits = 3
    /\ stderr = <<Msg("Error adding prime to hash set", 97)>>
    /\ Cardinality(heap.released) = 3 + 24

(***************************************************************************)
(* C9: if the Prime Source reports failure at any point of a run, the run  *)
(* ends in a fatal error with a non-zero exit and has produced no partial  *)
(* result: no per-digit-length count line and no total line.               *)
(***************************************************************************)
GenerationFailed ==
    \E j \in 1 .. Len(stderr) :
      stderr[j].msg \in {"Error: primesieve_generate_primes for all primes returned NULL",
                         "Error generating primes."}

C9_NoPartialResult ==
    GenerationFailed =>
      /\ stdout = <<>>
      /\ pc = "exit" => exit_code # 0

(***************************************************************************)
(* C10: the two variants produce identical results: for every k in 1..D    *)
(* the count the hash-set variant's call for k returns equals the count of *)
(* the bitset variant's call for k, and both report the same total.        *)
(***************************************************************************)
C10_VariantsAgree ==
    (Completed /\ prog = "bitset" /\ h_calls # <<>>) =>
      /\ \A k \in 1 .. digits :
           /\ Cardinality(ReturnedFor(calls, k)) = 1
           /\ ReturnedFor(h_calls, k) = ReturnedFor(calls, k)
      /\ CountsOf(h_stdout, digits) = CountsOf(stdout, digits)
      /\ Cardinality(TotalsOf(stdout)) = 1
      /\ TotalsOf(h_stdout) = TotalsOf(stdout)

\* Both programs completed a run for two digits, the second reporting 13.
C10_Witness ==
    /\ Completed /\ prog = "bitset" /\ h_calls # <<>> /\ digits = 2
    /\ TotalsOf(h_stdout) = {13}

(***************************************************************************)
(* C11: every run terminates, either completed (total reported, exit       *)
(* status 0) or in a fatal error (exit status non-zero); for every         *)
(* candidate v the truncation loop ends after at most as many membership   *)
(* queries as v has decimal digits: it stops at the first truncation that  *)
(* is not a known prime, and otherwise the value strictly decreases under  *)
(* integer division by 10 until it is 0.                                   *)
(***************************************************************************)
\* The number of decimal digits of v.
RECURSIVE RefDigits(_)
RefDigits(v) == IF v < 10 THEN 1 ELSE 1 + RefDigits(v \div 10)

\* The truncations of v tested up to and including the first that is not prime.
RECURSIVE RefQueries(_)
RefQueries(v) ==
    IF v = 0 THEN 0
    ELSE IF v \notin RefPrimeSet THEN 1
    ELSE 1 + RefQueries(v \div 10)

\* The run is over: main returned after the total line, main returned a
\* non-zero status, or the function called on its own returned.
Terminated ==
    \/ Completed /\ TotalsOf(stdout) # {}
    \/ pc = "exit" /\ exit_code # 0
    \/ pc = "done"

\* The candidate of the current turn of the for loop.
Candidate == all_primes_array[idx + 1]

C11_Terminates ==
    /\ <>[]Terminated
    /\ [](pc \in {"trunc", "count"} =>
            /\ queries <= RefDigits(Candidate)
            /\ temp_prime = Candidate \div power_of_10(IF is_r_truncatable # 0
                                                       THEN queries ELSE queries - 1)
            /\ pc = "count" =>
                 /\ queries = RefQueries(Candidate)
                 /\ (is_r_truncatable # 0) = (temp_prime = 0)
                 /\ (is_r_truncatable # 0) = RefRightTruncatable(Candidate)
                 /\ is_r_truncatable = 0 => temp_prime \notin RefPrimeSet)
    /\ [][(pc = "trunc" /\ pc' = "trunc") =>
            /\ temp_prime' < temp_prime
            /\ temp_prime' = temp_prime \div 10
            /\ queries' = queries + 1]_vars

\* A hash-set run for three digits completed; its last truncation loop, for
\* 997, stopped at 99 after two queries.
C11_Witness ==
    /\ Completed /\ prog = "hash" /\ digits = 3
    /\ TotalsOf(stdout) = {27}
    /\ temp_prime = 99 /\ queries = 2 /\ is_r_truncatable = 0

====
